---- MODULE Spec2Model ----
(***************************************************************************)
(* Model of pkg/minikube/cluster/cluster.go: the lifecycle of the single   *)
(* minikube machine (StartHost, StopHost, DeleteHost, GetHostStatus), the  *)
(* host-facing IP resolution (GetVMHostIP) and the 9p mount commands.      *)
(*                                                                         *)
(* The libmachine store, the driver, the provisioner and the SSH transport *)
(* are collaborators: every call the code makes to them is recorded in a   *)
(* call log, and each call may fail when the environment says so.          *)
(***************************************************************************)
EXTENDS Integers, Sequences, FiniteSets, TLC

VARIABLES api, last, prev

vars == <<api, last, prev>>

(***************************************************************************)
(* Bounds of the model.                                                    *)
(***************************************************************************)
\* longest insecure-registry list a config carries
MaxInsecure == 2

(***************************************************************************)
(* Values.                                                                 *)
(***************************************************************************)
\* libmachine state.State values the driver may report
VMStates == {"None", "Running", "Stopped"}

\* state.State.String(): the None state prints as the empty string
StateString(s) == IF s = "None" THEN "" ELSE s

\* pkgutil.DefaultServiceCIDR
DefaultServiceCIDR == "10.96.0.0/12"

\* constants.GetMinipath()
Minipath == "~/.minikube"

\* driver kinds that have a factory in the registry
Registered == {"none", "kvm", "kvm2", "hyperv", "virtualbox", "xhyve", "hyperkit"}

\* driver kinds a config may ask for ("bogus" has no factory)
DriverKinds == Registered \cup {"bogus"}

\* kinds that get the full range of engine settings in the configs below
RichKinds == {"virtualbox"}

RegistryPool == <<"reg1:5000", "reg2:5000", "reg3:5000", "reg4:5000">>

InsecureLists ==
  {<<>>} \cup {SubSeq(RegistryPool, m, n) : m \in 1..MaxInsecure, n \in 1..MaxInsecure}

\* cfg.MachineConfig, the fields cluster.go reads
MachineConfig(kind, env, insecure, mirror, opt) ==
  [VMDriver |-> kind, DockerEnv |-> env, InsecureRegistry |-> insecure,
   RegistryMirror |-> mirror, DockerOpt |-> opt]

NilConfig == MachineConfig("", <<>>, <<>>, <<>>, <<>>)

Configs ==
  {MachineConfig(k, <<>>, <<>>, <<>>, <<>>) : k \in DriverKinds}
  \cup {MachineConfig("none", <<"HTTP_PROXY=p">>, <<>>, <<>>, <<>>)}
  \cup {MachineConfig(k, <<>>, i, <<>>, <<>>) : k \in RichKinds, i \in InsecureLists}
  \cup {MachineConfig(k, <<"HTTP_PROXY=p">>, <<"reg1:5000">>, <<"mirror1">>, <<"debug">>) :
          k \in RichKinds}

\* engine.Options, the fields cluster.go sets
NilOptions == [Env |-> <<>>, InsecureRegistry |-> <<>>, RegistryMirror |-> <<>>,
               ArbitraryFlags |-> <<>>]

\* host.Host; RawDriver is the set of field names the driver blob carries
NilHost == [DriverName |-> "", RawDriver |-> {}, EngineOptions |-> NilOptions,
            CertDir |-> "", StorePath |-> ""]

\* an api whose store holds no record
EmptyAPI == [exists |-> FALSE, host |-> NilHost, vm |-> "None"]

\* the result of one operation: the api afterwards, the error classification
\* (nil, err, retriable, exit, panic) with the wrap message, the returned
\* handle or text, the calls made to collaborators, and the warning flag
Ret(a, res, at, h, out, calls, warned) ==
  [api |-> a, res |-> res, at |-> at, h |-> h, out |-> out, calls |-> calls,
   warned |-> warned]

\* r with the calls made before it put in front
After(calls, r) == [r EXCEPT !.calls = calls \o r.calls]

Has(calls, c) == \E i \in 1..Len(calls) : calls[i] = c

Count(calls, c) == Cardinality({i \in 1..Len(calls) : calls[i] = c})

\* some call named a comes before some call named b
Before(calls, a, b) ==
  \E i, j \in 1..Len(calls) : i < j /\ calls[i] = a /\ calls[j] = b

(***************************************************************************)
(* engineOptions                                                           *)
(***************************************************************************)
\* engineOptions placing the default service CIDR after the registries of
\* the config
engineOptions_Appended(config) ==
  [Env |-> config.DockerEnv,
   InsecureRegistry |-> config.InsecureRegistry \o <<DefaultServiceCIDR>>,
   RegistryMirror |-> config.RegistryMirror,
   ArbitraryFlags |-> config.DockerOpt]

engineOptions(config) ==
  [Env |-> config.DockerEnv,
   InsecureRegistry |-> <<DefaultServiceCIDR>> \o config.InsecureRegistry,
   RegistryMirror |-> config.RegistryMirror,
   ArbitraryFlags |-> config.DockerOpt]

(***************************************************************************)
(* createHost                                                              *)
(***************************************************************************)
\* preCreateHost only prints deprecation warnings and returns nil
preCreateHost(config) == "nil"

\* registry.Driver: the factory of a kind, or ErrDriverNotFound
registryDriver(kind) == IF kind \in Registered THEN "nil" ELSE "ErrDriverNotFound"

\* json.Marshal(def.ConfigCreator(config)): the blob of the driver
DriverData(config, blob) == blob

\* api.NewHost(kind, data)
NewHost(kind, data) ==
  [DriverName |-> kind, RawDriver |-> data, EngineOptions |-> NilOptions,
   CertDir |-> "", StorePath |-> ""]

\* createHost caching the image before it asks the registry for the factory
createHost_CacheFirst(a, config, fault, blob) ==
  LET iso == IF config.VMDriver # "none" THEN <<"CacheMinikubeISOFromURL">> ELSE <<>>
      c1 == iso \o <<"registry.Driver">>
  IN
  IF config.VMDriver # "none" /\ fault = "CacheMinikubeISOFromURL"
  THEN Ret(a, "err", "unable to cache ISO", NilHost, "", iso, FALSE)
  ELSE IF registryDriver(config.VMDriver) = "ErrDriverNotFound"
  THEN Ret(a, "exit", "unsupported driver", NilHost, "", c1 \o <<"exit.Usage">>, FALSE)
  ELSE IF fault = "registry.Driver"
  THEN Ret(a, "exit", "error getting driver", NilHost, "", c1 \o <<"exit.WithError">>, FALSE)
  ELSE IF fault = "Marshal"
  THEN Ret(a, "err", "marshal", NilHost, "", c1 \o <<"ConfigCreator", "Marshal">>, FALSE)
  ELSE IF fault = "NewHost"
  THEN Ret(a, "err", "new host", NilHost, "",
           c1 \o <<"ConfigCreator", "Marshal", "NewHost">>, FALSE)
  ELSE
  LET h == [NewHost(config.VMDriver, DriverData(config, blob))
              EXCEPT !.CertDir = Minipath, !.StorePath = Minipath,
                     !.EngineOptions = engineOptions(config)]
      c2 == c1 \o <<"ConfigCreator", "Marshal", "NewHost", "Create">>
  IN
  IF fault = "Create"
  THEN Ret(a, "err", "create", NilHost, "", c2 \o <<"Sleep">>, FALSE)
  ELSE IF fault = "CreateLate"
  THEN Ret([exists |-> TRUE, host |-> h, vm |-> "Stopped"], "err", "create",
           NilHost, "", c2 \o <<"Sleep">>, FALSE)
  ELSE IF fault = "Save"
  THEN Ret([exists |-> TRUE, host |-> h, vm |-> "Running"], "err", "save",
           NilHost, "", c2 \o <<"Save">>, FALSE)
  ELSE Ret([exists |-> TRUE, host |-> h, vm |-> "Running"], "nil", "",
           h, "", c2 \o <<"Save">>, FALSE)

createHost(a, config, fault, blob) ==
  IF preCreateHost(config) # "nil"
  THEN Ret(a, "err", "preCreateHost", NilHost, "", <<>>, FALSE)
  ELSE IF registryDriver(config.VMDriver) = "ErrDriverNotFound"
  THEN Ret(a, "exit", "unsupported driver", NilHost, "",
           <<"registry.Driver", "exit.Usage">>, FALSE)
  ELSE IF fault = "registry.Driver"
  THEN Ret(a, "exit", "error getting driver", NilHost, "",
           <<"registry.Driver", "exit.WithError">>, FALSE)
  ELSE
  LET iso == IF config.VMDriver # "none" THEN <<"CacheMinikubeISOFromURL">> ELSE <<>>
      c1 == <<"registry.Driver">> \o iso
  IN
  IF config.VMDriver # "none" /\ fault = "CacheMinikubeISOFromURL"
  THEN Ret(a, "err", "unable to cache ISO", NilHost, "", c1, FALSE)
  ELSE IF fault = "Marshal"
  THEN Ret(a, "err", "marshal", NilHost, "", c1 \o <<"ConfigCreator", "Marshal">>, FALSE)
  ELSE IF fault = "NewHost"
  THEN Ret(a, "err", "new host", NilHost, "",
           c1 \o <<"ConfigCreator", "Marshal", "NewHost">>, FALSE)
  ELSE
  LET h == [NewHost(config.VMDriver, DriverData(config, blob))
              EXCEPT !.CertDir = Minipath, !.StorePath = Minipath,
                     !.EngineOptions = engineOptions(config)]
      c2 == c1 \o <<"ConfigCreator", "Marshal", "NewHost", "Create">>
  IN
  IF fault = "Create"
  THEN Ret(a, "err", "create", NilHost, "", c2 \o <<"Sleep">>, FALSE)
  ELSE IF fault = "CreateLate"
  THEN Ret([exists |-> TRUE, host |-> h, vm |-> "Stopped"], "err", "create",
           NilHost, "", c2 \o <<"Sleep">>, FALSE)
  ELSE IF fault = "Save"
  THEN Ret([exists |-> TRUE, host |-> h, vm |-> "Running"], "err", "save",
           NilHost, "", c2 \o <<"Save">>, FALSE)
  ELSE Ret([exists |-> TRUE, host |-> h, vm |-> "Running"], "nil", "",
           h, "", c2 \o <<"Save">>, FALSE)

(***************************************************************************)
(* StartHost                                                               *)
(***************************************************************************)
\* the configuration steps deciding on the requested driver kind
StartHostConfigure_RequestedKind(a, h, config, fault, calls, warned) ==
  LET e == engineOptions(config)
      hasEnv == Len(e.Env) > 0
      h1 == IF hasEnv THEN [h EXCEPT !.EngineOptions.Env = e.Env] ELSE h
      c1 == calls \o (IF hasEnv THEN <<"DetectProvisioner">> ELSE <<>>)
      c2 == c1 \o (IF hasEnv THEN <<"Provision">> ELSE <<>>)
  IN
  IF hasEnv /\ fault = "DetectProvisioner"
  THEN Ret(a, "err", "detecting provisioner", NilHost, "", c1, warned)
  ELSE IF hasEnv /\ fault = "Provision"
  THEN Ret(a, "err", "provision", NilHost, "", c2, warned)
  ELSE IF config.VMDriver # "none"
  THEN IF fault = "ConfigureAuth"
       THEN Ret(a, "retriable", "Error configuring auth on host", NilHost, "",
                c2 \o <<"ConfigureAuth">>, warned)
       ELSE Ret(a, "nil", "", h1, "", c2 \o <<"ConfigureAuth">>, warned)
  ELSE Ret(a, "nil", "", h1, "", c2, warned)

\* lines 111-133: engine options, provisioning, auth configuration
\* StartHostConfigure returning a failure of ConfigureAuth as a plain error
StartHostConfigure_FatalAuth(a, h, config, fault, calls, warned) ==
  LET e == engineOptions(config)
      hasEnv == Len(e.Env) > 0
      h1 == IF hasEnv THEN [h EXCEPT !.EngineOptions.Env = e.Env] ELSE h
      c1 == calls \o (IF hasEnv THEN <<"DetectProvisioner">> ELSE <<>>)
      c2 == c1 \o (IF hasEnv THEN <<"Provision">> ELSE <<>>)
  IN
  IF hasEnv /\ fault = "DetectProvisioner"
  THEN Ret(a, "err", "detecting provisioner", NilHost, "", c1, warned)
  ELSE IF hasEnv /\ fault = "Provision"
  THEN Ret(a, "err", "provision", NilHost, "", c2, warned)
  ELSE IF h1.DriverName # "none"
  THEN IF fault = "ConfigureAuth"
       THEN Ret(a, "err", "Error configuring auth on host", NilHost, "",
                c2 \o <<"ConfigureAuth">>, warned)
       ELSE Ret(a, "nil", "", h1, "", c2 \o <<"ConfigureAuth">>, warned)
  ELSE Ret(a, "nil", "", h1, "", c2, warned)

\* StartHostConfigure provisioning whatever the Env of the engine options
StartHostConfigure_AlwaysProvision(a, h, config, fault, calls, warned) ==
  LET e == engineOptions(config)
      hasEnv == Len(e.Env) > 0
      h1 == IF hasEnv THEN [h EXCEPT !.EngineOptions.Env = e.Env] ELSE h
      c1 == calls \o <<"DetectProvisioner">>
      c2 == c1 \o <<"Provision">>
  IN
  IF fault = "DetectProvisioner"
  THEN Ret(a, "err", "detecting provisioner", NilHost, "", c1, warned)
  ELSE IF fault = "Provision"
  THEN Ret(a, "err", "provision", NilHost, "", c2, warned)
  ELSE IF h1.DriverName # "none"
  THEN IF fault = "ConfigureAuth"
       THEN Ret(a, "retriable", "Error configuring auth on host", NilHost, "",
                c2 \o <<"ConfigureAuth">>, warned)
       ELSE Ret(a, "nil", "", h1, "", c2 \o <<"ConfigureAuth">>, warned)
  ELSE Ret(a, "nil", "", h1, "", c2, warned)

StartHostConfigure(a, h, config, fault, calls, warned) ==
  LET e == engineOptions(config)
      hasEnv == Len(e.Env) > 0
      h1 == IF hasEnv THEN [h EXCEPT !.EngineOptions.Env = e.Env] ELSE h
      c1 == calls \o (IF hasEnv THEN <<"DetectProvisioner">> ELSE <<>>)
      c2 == c1 \o (IF hasEnv THEN <<"Provision">> ELSE <<>>)
  IN
  IF hasEnv /\ fault = "DetectProvisioner"
  THEN Ret(a, "err", "detecting provisioner", NilHost, "", c1, warned)
  ELSE IF hasEnv /\ fault = "Provision"
  THEN Ret(a, "err", "provision", NilHost, "", c2, warned)
  ELSE IF h1.DriverName # "none"
  THEN IF fault = "ConfigureAuth"
       THEN Ret(a, "retriable", "Error configuring auth on host", NilHost, "",
                c2 \o <<"ConfigureAuth">>, warned)
       ELSE Ret(a, "nil", "", h1, "", c2 \o <<"ConfigureAuth">>, warned)
  ELSE Ret(a, "nil", "", h1, "", c2, warned)

\* the restart without the Save that follows the driver's Start
StartHostExisting_NoSave(a, config, fault) ==
  IF fault = "Load"
  THEN Ret(a, "err", "Error loading existing host", NilHost, "", <<"Load">>, FALSE)
  ELSE
  LET h == a.host
      warned == h.DriverName # config.VMDriver
      s == a.vm
  IN
  IF fault = "GetState"
  THEN Ret(a, "err", "Error getting state for host", NilHost, "",
           <<"Load", "GetState">>, warned)
  ELSE IF s = "Running"
  THEN StartHostConfigure(a, h, config, fault, <<"Load", "GetState">>, warned)
  ELSE IF fault = "Start"
  THEN Ret(a, "err", "start", NilHost, "", <<"Load", "GetState", "Start">>, warned)
  ELSE StartHostConfigure([a EXCEPT !.vm = "Running"], h, config, fault,
                          <<"Load", "GetState", "Start">>, warned)

\* lines 77-109: load the record, warn on a driver mismatch, restart if needed
StartHostExisting(a, config, fault) ==
  IF fault = "Load"
  THEN Ret(a, "err", "Error loading existing host", NilHost, "", <<"Load">>, FALSE)
  ELSE
  LET h == a.host
      warned == h.DriverName # config.VMDriver
      s == a.vm
  IN
  IF fault = "GetState"
  THEN Ret(a, "err", "Error getting state for host", NilHost, "",
           <<"Load", "GetState">>, warned)
  ELSE IF s = "Running"
  THEN StartHostConfigure(a, h, config, fault, <<"Load", "GetState">>, warned)
  ELSE IF fault = "Start"
  THEN Ret(a, "err", "start", NilHost, "", <<"Load", "GetState", "Start">>, warned)
  ELSE IF fault = "Save"
  THEN Ret([a EXCEPT !.vm = "Running"], "err", "save", NilHost, "",
           <<"Load", "GetState", "Start", "Save">>, warned)
  ELSE StartHostConfigure([a EXCEPT !.vm = "Running", !.host = h], h, config, fault,
                          <<"Load", "GetState", "Start", "Save">>, warned)

\* StartHost creating the machine whether or not the record exists
StartHost_AlwaysCreate(a, config, fault, blob) ==
  IF fault = "Exists"
  THEN Ret(a, "err", "machine name", NilHost, "", <<"Exists">>, FALSE)
  ELSE After(<<"Exists">>, createHost(a, config, fault, blob))

StartHost(a, config, fault, blob) ==
  IF fault = "Exists"
  THEN Ret(a, "err", "machine name", NilHost, "", <<"Exists">>, FALSE)
  ELSE IF ~a.exists
  THEN After(<<"Exists">>, createHost(a, config, fault, blob))
  ELSE After(<<"Exists">>, StartHostExisting(a, config, fault))

(***************************************************************************)
(* tryPowerOff, StopHost, DeleteHost, GetHostStatus                        *)
(***************************************************************************)
\* api.Load fails when the store has no record of the name, or cannot read it
LoadFails(a, faults) == ~a.exists \/ "Load" \in faults

\* the error host.Stop() gives: nil, an ErrHostAlreadyInState, or another one
StopError(kind, s) == [kind |-> kind, State |-> s]

\* host.Stop() on a machine the driver has in state vm, without any failure
NormalStop(vm) ==
  IF vm = "Stopped" THEN StopError("AlreadyInState", "Stopped") ELSE StopError("nil", "None")

\* the errors host.Stop() may give for a machine in state vm
StopErrors(vm) ==
  {NormalStop(vm), StopError("other", "None")}
  \cup (IF vm = "Stopped" THEN {}
        ELSE {StopError("AlreadyInState", s) : s \in VMStates \ {"Stopped"}})

\* StopHost taking every error of the stop signal for a failure
StopHost_NoSwallow(a, fault, serr) ==
  IF LoadFails(a, {fault})
  THEN Ret(a, "err", "load", NilHost, "", <<"Load">>, FALSE)
  ELSE IF serr.kind # "nil"
  THEN Ret(a, "retriable", "Stop", NilHost, "", <<"Load", "Stop">>, FALSE)
  ELSE Ret([a EXCEPT !.vm = "Stopped"], "nil", "", NilHost, "", <<"Load", "Stop">>, FALSE)

\* StopHost taking an ErrHostAlreadyInState of any state for success
StopHost_AnyAlready(a, fault, serr) ==
  IF LoadFails(a, {fault})
  THEN Ret(a, "err", "load", NilHost, "", <<"Load">>, FALSE)
  ELSE IF serr.kind # "nil"
  THEN IF serr.kind = "AlreadyInState"
       THEN Ret(a, "nil", "", NilHost, "", <<"Load", "Stop">>, FALSE)
       ELSE Ret(a, "retriable", "Stop", NilHost, "", <<"Load", "Stop">>, FALSE)
  ELSE Ret([a EXCEPT !.vm = "Stopped"], "nil", "", NilHost, "", <<"Load", "Stop">>, FALSE)

\* StopHost sending the stop signal although the record was not loaded
StopHost_StopUnloaded(a, fault, serr) ==
  IF LoadFails(a, {fault})
  THEN Ret([a EXCEPT !.vm = IF a.exists THEN "Stopped" ELSE @], "err", "load", NilHost, "",
           <<"Load", "Stop">>, FALSE)
  ELSE IF serr.kind # "nil"
  THEN IF serr.kind = "AlreadyInState" /\ serr.State = "Stopped"
       THEN Ret(a, "nil", "", NilHost, "", <<"Load", "Stop">>, FALSE)
       ELSE Ret(a, "retriable", "Stop", NilHost, "", <<"Load", "Stop">>, FALSE)
  ELSE Ret([a EXCEPT !.vm = "Stopped"], "nil", "", NilHost, "", <<"Load", "Stop">>, FALSE)

StopHost(a, fault, serr) ==
  IF LoadFails(a, {fault})
  THEN Ret(a, "err", "load", NilHost, "", <<"Load">>, FALSE)
  ELSE IF serr.kind # "nil"
  THEN IF serr.kind = "AlreadyInState" /\ serr.State = "Stopped"
       THEN Ret(a, "nil", "", NilHost, "", <<"Load", "Stop">>, FALSE)
       ELSE Ret(a, "retriable", "Stop", NilHost, "", <<"Load", "Stop">>, FALSE)
  ELSE Ret([a EXCEPT !.vm = "Stopped"], "nil", "", NilHost, "", <<"Load", "Stop">>, FALSE)

\* tryPowerOff asking the driver of every kind, "none" too, for the state
tryPowerOff_AnyKind(a, h, faults) ==
  IF "GetState" \in faults
  THEN [api |-> a, calls |-> <<"tryPowerOff", "GetState">>]
  ELSE IF a.vm # "Running"
  THEN [api |-> a, calls |-> <<"tryPowerOff", "GetState">>]
  ELSE [api |-> IF "RunSSHCommand:poweroff" \in faults THEN a
                ELSE [a EXCEPT !.vm = "Stopped"],
        calls |-> <<"tryPowerOff", "GetState", "RunSSHCommand:sudo poweroff">>]

\* returns the api after the attempt and the calls made; never an error
tryPowerOff(a, h, faults) ==
  IF h.DriverName = "none"
  THEN [api |-> a, calls |-> <<"tryPowerOff">>]
  ELSE IF "GetState" \in faults
  THEN [api |-> a, calls |-> <<"tryPowerOff", "GetState">>]
  ELSE IF a.vm # "Running"
  THEN [api |-> a, calls |-> <<"tryPowerOff", "GetState">>]
  ELSE [api |-> IF "RunSSHCommand:poweroff" \in faults THEN a
                ELSE [a EXCEPT !.vm = "Stopped"],
        calls |-> <<"tryPowerOff", "GetState", "RunSSHCommand:sudo poweroff">>]

\* DeleteHost removing the record before the driver's resource
DeleteHost_RecordFirst(a, faults) ==
  IF LoadFails(a, faults)
  THEN Ret(a, "err", "load", NilHost, "", <<"Load">>, FALSE)
  ELSE
  LET host == a.host
      p == tryPowerOff(a, host, faults)
      c1 == <<"Load">> \o p.calls \o <<"api.Remove">>
  IN
  IF "api.Remove" \in faults
  THEN Ret(p.api, "err", "api remove", NilHost, "", c1, FALSE)
  ELSE IF "Driver.Remove" \in faults
  THEN Ret([EmptyAPI EXCEPT !.vm = p.api.vm], "err", "host remove", NilHost, "",
           c1 \o <<"Driver.Remove">>, FALSE)
  ELSE Ret(EmptyAPI, "nil", "", NilHost, "", c1 \o <<"Driver.Remove">>, FALSE)

\* DeleteHost leaving the record in the store
DeleteHost_KeepRecord(a, faults) ==
  IF LoadFails(a, faults)
  THEN Ret(a, "err", "load", NilHost, "", <<"Load">>, FALSE)
  ELSE
  LET host == a.host
      p == tryPowerOff(a, host, faults)
      c1 == <<"Load">> \o p.calls \o <<"Driver.Remove">>
  IN
  IF "Driver.Remove" \in faults
  THEN Ret(p.api, "err", "host remove", NilHost, "", c1, FALSE)
  ELSE Ret([p.api EXCEPT !.vm = "None"], "nil", "", NilHost, "", c1, FALSE)

DeleteHost(a, faults) ==
  IF LoadFails(a, faults)
  THEN Ret(a, "err", "load", NilHost, "", <<"Load">>, FALSE)
  ELSE
  LET host == a.host
      p == tryPowerOff(a, host, faults)
      c1 == <<"Load">> \o p.calls \o <<"Driver.Remove">>
  IN
  IF "Driver.Remove" \in faults
  THEN Ret(p.api, "err", "host remove", NilHost, "", c1, FALSE)
  ELSE IF "api.Remove" \in faults
  THEN Ret([p.api EXCEPT !.vm = "None"], "err", "api remove", NilHost, "",
           c1 \o <<"api.Remove">>, FALSE)
  ELSE Ret(EmptyAPI, "nil", "", NilHost, "", c1 \o <<"api.Remove">>, FALSE)

\* GetHostStatus loading the record without asking whether it exists
GetHostStatus_LoadFirst(a, fault) ==
  IF LoadFails(a, {fault})
  THEN Ret(a, "err", "load", NilHost, "", <<"Load">>, FALSE)
  ELSE IF fault = "GetState"
  THEN Ret(a, "err", "state", NilHost, "", <<"Load", "GetState">>, FALSE)
  ELSE Ret(a, "nil", "", NilHost, StateString(a.vm), <<"Load", "GetState">>, FALSE)

GetHostStatus(a, fault) ==
  IF fault = "Exists"
  THEN Ret(a, "err", "exists", NilHost, "", <<"Exists">>, FALSE)
  ELSE IF ~a.exists
  THEN Ret(a, "nil", "", NilHost, StateString("None"), <<"Exists">>, FALSE)
  ELSE IF fault = "Load"
  THEN Ret(a, "err", "load", NilHost, "", <<"Exists", "Load">>, FALSE)
  ELSE IF fault = "GetState"
  THEN Ret(a, "err", "state", NilHost, "", <<"Exists", "Load", "GetState">>, FALSE)
  ELSE Ret(a, "nil", "", NilHost, StateString(a.vm), <<"Exists", "Load", "GetState">>, FALSE)

(***************************************************************************)
(* GetVMHostIP, getIPForInterface                                          *)
(***************************************************************************)
\* net.IP: the dotted text of an address; NilIP is the nil (or empty) slice
NilIP == ""

\* net.IP.String()
IPString(ip) == IF ip = NilIP THEN "<nil>" ELSE ip

\* what the host's network looks like to one call: the output of
\* "VBoxManage showvminfo" (an error, no hostonlyadapter2 line, or the adapter)
\* and the named interface (missing, without an IPv4 address, or with one)
NetEnvs ==
  [vbox : {"error", "noadapter"}, iface : {"missing"}]
  \cup [vbox : {"vboxnet0"}, iface : {"missing", "noipv4", "192.168.99.1"}]

QuietNet == [vbox |-> "vboxnet0", iface |-> "192.168.99.1"]

\* the result of an address resolution: res is nil, err or panic
IPRet(res, at, ip, calls) == [res |-> res, at |-> at, ip |-> ip, calls |-> calls]

getIPForInterface(name, net) ==
  IF net.iface \in {"missing", "noipv4"}
  THEN IPRet("err", "Error finding IPV4 address", NilIP, <<"InterfaceByName", "Addrs">>)
  ELSE IPRet("nil", "", net.iface, <<"InterfaceByName", "Addrs">>)

\* GetVMHostIP with the gateways of kvm and kvm2 exchanged
GetVMHostIP_Exchanged(host, net) ==
  CASE host.DriverName = "kvm" -> IPRet("nil", "", "192.168.39.1", <<>>)
    [] host.DriverName = "kvm2" -> IPRet("nil", "", "192.168.42.1", <<>>)
    [] host.DriverName = "hyperv" ->
         IF "VSwitch" \notin host.RawDriver
         THEN IPRet("panic", "index out of range", NilIP, <<>>)
         ELSE LET r == getIPForInterface("vEthernet", net)
              IN IF r.res # "nil"
                 THEN IPRet("err", "ip for interface", NilIP, r.calls)
                 ELSE r
    [] host.DriverName = "virtualbox" ->
         IF net.vbox = "error"
         THEN IPRet("err", "vboxmanage", NilIP, <<"VBoxManage">>)
         ELSE IF net.vbox = "noadapter"
         THEN IPRet("panic", "index out of range", NilIP, <<"VBoxManage">>)
         ELSE LET r == getIPForInterface(net.vbox, net)
              IN IF r.res # "nil"
                 THEN IPRet("err", "Error getting VM/Host IP address", NilIP,
                            <<"VBoxManage">> \o r.calls)
                 ELSE [r EXCEPT !.calls = <<"VBoxManage">> \o r.calls]
    [] host.DriverName \in {"xhyve", "hyperkit"} -> IPRet("nil", "", "192.168.64.1", <<>>)
    [] OTHER -> IPRet("err", "unsupported driver", NilIP, <<>>)

GetVMHostIP(host, net) ==
  CASE host.DriverName = "kvm" -> IPRet("nil", "", "192.168.42.1", <<>>)
    [] host.DriverName = "kvm2" -> IPRet("nil", "", "192.168.39.1", <<>>)
    [] host.DriverName = "hyperv" ->
         IF "VSwitch" \notin host.RawDriver
         THEN IPRet("panic", "index out of range", NilIP, <<>>)
         ELSE LET r == getIPForInterface("vEthernet", net)
              IN IF r.res # "nil"
                 THEN IPRet("err", "ip for interface", NilIP, r.calls)
                 ELSE r
    [] host.DriverName = "virtualbox" ->
         IF net.vbox = "error"
         THEN IPRet("err", "vboxmanage", NilIP, <<"VBoxManage">>)
         ELSE IF net.vbox = "noadapter"
         THEN IPRet("panic", "index out of range", NilIP, <<"VBoxManage">>)
         ELSE LET r == getIPForInterface(net.vbox, net)
              IN IF r.res # "nil"
                 THEN IPRet("err", "Error getting VM/Host IP address", NilIP,
                            <<"VBoxManage">> \o r.calls)
                 ELSE [r EXCEPT !.calls = <<"VBoxManage">> \o r.calls]
    [] host.DriverName \in {"xhyve", "hyperkit"} -> IPRet("nil", "", "192.168.64.1", <<>>)
    [] OTHER -> IPRet("err", "unsupported driver", NilIP, <<>>)

(***************************************************************************)
(* GetMountCleanupCommand, GetMountCommand                                 *)
(***************************************************************************)
\* the replacement html/template makes for one character of a value
HTMLEscapeChar(c) ==
  CASE c = "&" -> "&amp;"
    [] c = "<" -> "&lt;"
    [] c = ">" -> "&gt;"
    [] c = "'" -> "&#39;"
    [] c = "+" -> "&#43;"
    [] c = "\"" -> "&#34;"
    [] OTHER -> c

RECURSIVE HTMLEscape(_)
HTMLEscape(s) ==
  IF Len(s) = 0 THEN ""
  ELSE HTMLEscapeChar(SubSeq(s, 1, 1)) \o HTMLEscape(SubSeq(s, 2, Len(s)))

\* the arguments of a mount
MountArgs(ip, path, port, version, uid, gid, msize) ==
  [ip |-> ip, path |-> path, port |-> port, version |-> version,
   uid |-> uid, gid |-> gid, msize |-> msize]

NilArgs == MountArgs(NilIP, "", "", "", 0, 0, 0)

GetMountCleanupCommand(path) == "sudo umount " \o path \o ";"

\* the template with the address and the path of the mount line exchanged
GetMountCommand_Exchanged(ip, path, port, mountVersion, uid, gid, msize) ==
  LET IP == HTMLEscape(IPString(ip))
      Path == HTMLEscape(path)
      Port == HTMLEscape(port)
      Version == HTMLEscape(mountVersion)
      UID == ToString(uid)
      GID == ToString(gid)
      Msize == ToString(msize)
  IN "\nsudo mkdir -p " \o Path \o " || true;"
     \o "\nsudo mount -t 9p -o trans=tcp,port=" \o Port \o ",dfltuid=" \o UID
     \o ",dfltgid=" \o GID \o ",version=" \o Version \o ",msize=" \o Msize
     \o " " \o Path \o " " \o IP \o ";"
     \o "\nsudo chmod 775 " \o Path \o " || true;"

\* mountTemplate, executed with the values escaped for HTML text
GetMountCommand(ip, path, port, mountVersion, uid, gid, msize) ==
  LET IP == HTMLEscape(IPString(ip))
      Path == HTMLEscape(path)
      Port == HTMLEscape(port)
      Version == HTMLEscape(mountVersion)
      \* the decimal text of an integer has nothing to escape
      UID == ToString(uid)
      GID == ToString(gid)
      Msize == ToString(msize)
  IN "\nsudo mkdir -p " \o Path \o " || true;"
     \o "\nsudo mount -t 9p -o trans=tcp,port=" \o Port \o ",dfltuid=" \o UID
     \o ",dfltgid=" \o GID \o ",version=" \o Version \o ",msize=" \o Msize
     \o " " \o IP \o " " \o Path \o ";"
     \o "\nsudo chmod 775 " \o Path \o " || true;"

(***************************************************************************)
(* CheckIfHostExistsAndLoad, MountHost                                     *)
(***************************************************************************)
CheckIfHostExistsAndLoad(a, fault) ==
  IF fault = "Exists"
  THEN Ret(a, "err", "Error checking that machine exists", NilHost, "", <<"Exists">>, FALSE)
  ELSE IF ~a.exists
  THEN Ret(a, "err", "Machine does not exist", NilHost, "", <<"Exists">>, FALSE)
  ELSE IF fault = "Load"
  THEN Ret(a, "err", "Error loading store", NilHost, "", <<"Exists", "Load">>, FALSE)
  ELSE Ret(a, "nil", "", a.host, "", <<"Exists", "Load">>, FALSE)

\* MountHost returning the error of the unmount command
MountHost_UmountFatal(a, m, faults, net) ==
  LET l == CheckIfHostExistsAndLoad(a, IF "Exists" \in faults THEN "Exists"
                                       ELSE IF "Load" \in faults THEN "Load" ELSE "none")
  IN
  IF l.res # "nil"
  THEN Ret(a, "err", "Error checking that api exists and loading it", NilHost, "",
           l.calls, FALSE)
  ELSE
  LET r == IF m.ip = NilIP THEN GetVMHostIP(l.h, net) ELSE IPRet("nil", "", m.ip, <<>>)
      c1 == l.calls \o (IF m.ip = NilIP THEN <<"GetVMHostIP">> ELSE <<>>) \o r.calls
  IN
  IF r.res = "panic"
  THEN Ret(a, "panic", r.at, NilHost, "", c1, FALSE)
  ELSE IF r.res # "nil"
  THEN Ret(a, "err", "Error getting the host IP address to use from within the VM",
           NilHost, "", c1, FALSE)
  ELSE
  LET mountCmd == GetMountCommand(r.ip, m.path, m.port, m.version, m.uid, m.gid, m.msize)
      c2 == c1 \o <<"RunSSHCommand:" \o GetMountCleanupCommand(m.path)>>
      c3 == c2 \o <<"RunSSHCommand:" \o mountCmd>>
  IN
  IF "RunSSHCommand:umount" \in faults
  THEN Ret(a, "err", "running umount", NilHost, "", c2, FALSE)
  ELSE IF "RunSSHCommand:mount" \in faults
  THEN Ret(a, "err", "running mount", NilHost, mountCmd, c3, FALSE)
  ELSE Ret(a, "nil", "", NilHost, mountCmd, c3, FALSE)

\* faults may name Exists or Load, RunSSHCommand:umount and RunSSHCommand:mount
MountHost(a, m, faults, net) ==
  LET l == CheckIfHostExistsAndLoad(a, IF "Exists" \in faults THEN "Exists"
                                       ELSE IF "Load" \in faults THEN "Load" ELSE "none")
  IN
  IF l.res # "nil"
  THEN Ret(a, "err", "Error checking that api exists and loading it", NilHost, "",
           l.calls, FALSE)
  ELSE
  LET r == IF m.ip = NilIP THEN GetVMHostIP(l.h, net) ELSE IPRet("nil", "", m.ip, <<>>)
      c1 == l.calls \o (IF m.ip = NilIP THEN <<"GetVMHostIP">> ELSE <<>>) \o r.calls
  IN
  IF r.res = "panic"
  THEN Ret(a, "panic", r.at, NilHost, "", c1, FALSE)
  ELSE IF r.res # "nil"
  THEN Ret(a, "err", "Error getting the host IP address to use from within the VM",
           NilHost, "", c1, FALSE)
  ELSE
  LET mountCmd == GetMountCommand(r.ip, m.path, m.port, m.version, m.uid, m.gid, m.msize)
      c2 == c1 \o <<"RunSSHCommand:" \o GetMountCleanupCommand(m.path),
                    "RunSSHCommand:" \o mountCmd>>
  IN
  IF "RunSSHCommand:mount" \in faults
  THEN Ret(a, "err", "running mount", NilHost, mountCmd, c2, FALSE)
  ELSE Ret(a, "nil", "", NilHost, mountCmd, c2, FALSE)

(***************************************************************************)
(* The calls of the command-line layer, one operation per invocation.      *)
(***************************************************************************)
\* the driver blobs the factory of a kind may produce
Blobs(kind) == IF kind \in {"hyperv", "kvm2"} THEN {{}, {"VSwitch"}} ELSE {{}}

MountInputs ==
  {MountArgs(ip, path, "5000", "9p2000.L", uid, 1000, 262144) :
     ip \in {NilIP, "10.0.0.2"}, path \in {"/mnt/x", "/mnt/a&b"}, uid \in {0, 1000}}

StartsWith(s, p) == Len(s) >= Len(p) /\ SubSeq(s, 1, Len(p)) = p

\* the logged call c is the call the fault f makes fail
IsCall(f, c) ==
  CASE f = "CreateLate" -> c = "Create"
    [] f = "RunSSHCommand:poweroff" -> c = "RunSSHCommand:sudo poweroff"
    [] f = "RunSSHCommand:umount" -> StartsWith(c, "RunSSHCommand:sudo umount")
    [] f = "RunSSHCommand:mount" -> StartsWith(c, "RunSSHCommand:\nsudo mkdir")
    [] OTHER -> c = f

\* the faults of the environment that the operation met
Met(faults, calls) == {f \in faults : \E i \in 1..Len(calls) : IsCall(f, calls[i])}

\* an environment is listed once: its faults are those the operation meets,
\* and its network is the quiet one unless the operation looks at the network
Canonical(faults, net, calls) ==
  /\ Met(faults \ {"none"}, calls) = faults \ {"none"}
  /\ net # QuietNet => Has(calls, "VBoxManage") \/ Has(calls, "InterfaceByName")

\* what is remembered of an operation: its name and inputs, the api before
\* it, the faults it met, and its result
Op(name, config, m, pre, faults, r) ==
  [op |-> name, cfg |-> config, args |-> m, pre |-> pre,
   faults |-> Met(faults, r.calls), res |-> r.res, at |-> r.at, h |-> r.h,
   out |-> r.out, calls |-> r.calls, warned |-> r.warned]

\* what is remembered of the operation l that came right before an operation
\* named name: a successful StartHost on a fresh store before a StartHost,
\* a successful StopHost before a StopHost, a successful DeleteHost before a
\* StartHost or a GetHostStatus
Summary(name, l) ==
  IF name = "StartHost" /\ l.op = "StartHost" /\ ~l.pre.exists /\ l.res = "nil"
  THEN "freshStart"
  ELSE IF name = "StopHost" /\ l.op = "StopHost" /\ l.res = "nil" THEN "stopped"
  ELSE IF name \in {"StartHost", "GetHostStatus"} /\ l.op = "DeleteHost" /\ l.res = "nil"
  THEN "deleted"
  ELSE "other"

StartFaults(a) ==
  IF a.exists
  THEN {"none", "Exists", "Load", "GetState", "Start", "Save", "DetectProvisioner",
        "Provision", "ConfigureAuth"}
  ELSE {"none", "Exists", "registry.Driver", "CacheMinikubeISOFromURL", "Marshal",
        "NewHost", "Create", "CreateLate", "Save"}

Init ==
  /\ api = EmptyAPI
  /\ last = Op("init", NilConfig, NilArgs, EmptyAPI, {},
               Ret(EmptyAPI, "nil", "", NilHost, "", <<>>, FALSE))
  /\ prev = "other"

CallStartHost ==
  \E config \in Configs, fault \in StartFaults(api) :
  \E blob \in Blobs(config.VMDriver) :
    \E r \in {StartHost(api, config, fault, blob)} :
       /\ Canonical({fault}, QuietNet, r.calls)
       /\ blob # {} => Has(r.calls, "NewHost")
       /\ api' = r.api
       /\ last' = Op("StartHost", config, NilArgs, api, {fault}, r)
       /\ prev' = Summary("StartHost", last)

CallStopHost ==
  \E fault \in {"none", "Load"}, serr \in StopErrors(api.vm) :
    /\ \E r \in {StopHost(api, fault, serr)} :
          /\ Canonical({fault}, QuietNet, r.calls)
          /\ serr # NormalStop(api.vm) => Has(r.calls, "Stop")
          /\ api' = r.api
          /\ last' = [Op("StopHost", NilConfig, NilArgs, api,
                         {fault} \cup (IF serr = NormalStop(api.vm) THEN {} ELSE {"Stop"}), r)
                        EXCEPT !.out = serr.kind \o ":" \o serr.State]
          /\ prev' = Summary("StopHost", last)

CallDeleteHost ==
  \E faults \in SUBSET {"Load", "GetState", "RunSSHCommand:poweroff", "Driver.Remove",
                        "api.Remove"} :
    /\ \E r \in {DeleteHost(api, faults)} :
          /\ Canonical(faults, QuietNet, r.calls)
          /\ api' = r.api
          /\ last' = Op("DeleteHost", NilConfig, NilArgs, api, faults, r)
          /\ prev' = Summary("DeleteHost", last)

CallGetHostStatus ==
  \E fault \in {"none", "Exists", "Load", "GetState"} :
    \E r \in {GetHostStatus(api, fault)} :
       /\ Canonical({fault}, QuietNet, r.calls)
       /\ api' = r.api
       /\ last' = Op("GetHostStatus", NilConfig, NilArgs, api, {fault}, r)
       /\ prev' = Summary("GetHostStatus", last)

\* GetVMHostIP on the handle of the loaded record
CallGetVMHostIP ==
  /\ api.exists
  /\ \E net \in NetEnvs :
       \E r \in {GetVMHostIP(api.host, net)} :
          /\ Canonical({}, net, r.calls)
          /\ api' = api
          /\ last' = Op("GetVMHostIP", NilConfig, NilArgs, api, {},
                        Ret(api, r.res, r.at, api.host, r.ip, r.calls, FALSE))
          /\ prev' = Summary("GetVMHostIP", last)

CallMountHost ==
  \E m \in {i \in MountInputs : i.uid = 1000 /\ i.path = "/mnt/x"},
     faults \in {{"Exists"}, {"Load"}}
                \cup SUBSET {"RunSSHCommand:umount", "RunSSHCommand:mount"},
     net \in NetEnvs :
    /\ net # QuietNet => m.ip = NilIP /\ api.exists /\ faults \cap {"Exists", "Load"} = {}
    /\ \E r \in {MountHost(api, m, faults, net)} :
          /\ Canonical(faults, net, r.calls)
          /\ api' = r.api
          /\ last' = Op("MountHost", NilConfig, m, api, faults, r)
          /\ prev' = Summary("MountHost", last)

CallGetMountCommand ==
  \E m \in MountInputs :
    /\ api' = api
    /\ last' = Op("GetMountCommand", NilConfig, m, api, {},
                  Ret(api, "nil", "", NilHost,
                      GetMountCommand(m.ip, m.path, m.port, m.version, m.uid, m.gid, m.msize),
                      <<>>, FALSE))
    /\ prev' = Summary("GetMountCommand", last)

CallGetMountCleanupCommand ==
  \E m \in MountInputs :
    /\ api' = api
    /\ last' = Op("GetMountCleanupCommand", NilConfig, [NilArgs EXCEPT !.path = m.path],
                  api, {}, Ret(api, "nil", "", NilHost, GetMountCleanupCommand(m.path),
                               <<>>, FALSE))
    /\ prev' = Summary("GetMountCleanupCommand", last)

\* the guest changes state on its own (it halts, crashes, or is started by hand)
GuestEvent ==
  /\ api.exists
  /\ \E s \in VMStates \ {api.vm} :
       /\ api' = [api EXCEPT !.vm = s]
       /\ last' = Op("GuestEvent", NilConfig, NilArgs, api, {},
                     Ret(api, "nil", "", NilHost, "", <<>>, FALSE))
       /\ prev' = Summary("GuestEvent", last)

Next ==
  \/ CallStartHost
  \/ CallStopHost
  \/ CallDeleteHost
  \/ CallGetHostStatus
  \/ CallGetVMHostIP
  \/ CallMountHost
  \/ CallGetMountCommand
  \/ CallGetMountCleanupCommand
  \/ GuestEvent

Spec == Init /\ [][Next]_vars

(***************************************************************************)
(* Properties.                                                             *)
(***************************************************************************)
\* the last operation was StartHost and it got the record of the machine
\* from the store
StartedExisting ==
  /\ last.op = "StartHost"
  /\ last.pre.exists
  /\ Has(last.calls, "Load")
  /\ "Load" \notin last.faults

Created(calls) == Has(calls, "NewHost") \/ Has(calls, "Create")

\* the positions at which sub occurs in the text s
Occurrences(sub, s) ==
  {i \in 1..(Len(s) - Len(sub) + 1) : SubSeq(s, i, i + Len(sub) - 1) = sub}

\* sub occurs exactly once in s
Once(sub, s) == Cardinality(Occurrences(sub, s)) = 1

\* a, b and c occur in s, in that order
InOrder(a, b, c, s) ==
  \E i \in Occurrences(a, s), j \in Occurrences(b, s), k \in Occurrences(c, s) :
    i < j /\ j < k

\* C1: a successful StartHost on a store without the record invokes Create
\* once and leaves the machine Running; the StartHost right after it finds the
\* machine Running, makes no NewHost and no Create, leaves the machine
\* Running, and succeeds unless a collaborator fails.
C1_IdempotentStart ==
  /\ (last.op = "StartHost" /\ ~last.pre.exists /\ last.res = "nil")
       => /\ Count(last.calls, "Create") = 1
          /\ api.exists
          /\ api.vm = "Running"
  /\ (last.op = "StartHost" /\ prev = "freshStart")
       => /\ last.pre.exists
          /\ last.pre.vm = "Running"
          /\ ~Created(last.calls)
          /\ api.vm = "Running"
          /\ (last.faults = {} => last.res = "nil")

C1_Witness ==
  /\ last.op = "StartHost"
  /\ prev = "freshStart"
  /\ last.res = "nil"
  /\ api.vm = "Running"

\* C2: a successful StartHost on an existing record whose machine is Running,
\* with a config whose insecure-registry list is not the record's, leaves the
\* new list in the stored record and makes no NewHost and no Create.
C2_ReusePersistsInsecureRegistry ==
  (/\ StartedExisting
   /\ last.pre.vm = "Running"
   /\ last.res = "nil"
   /\ engineOptions(last.cfg).InsecureRegistry # last.pre.host.EngineOptions.InsecureRegistry)
    => /\ api.host.EngineOptions.InsecureRegistry = engineOptions(last.cfg).InsecureRegistry
       /\ ~Created(last.calls)

\* C3: a StartHost whose config asks for another driver kind than the loaded
\* record's warns, leaves the record's kind as it is, creates nothing, fails
\* only when a collaborator fails, and configures auth exactly when the
\* record's kind (not the requested one) is not "none".
C3_DriverMismatchAdvisory ==
  (StartedExisting /\ last.cfg.VMDriver # last.pre.host.DriverName)
    => /\ last.warned
       /\ api.exists
       /\ api.host.DriverName = last.pre.host.DriverName
       /\ ~Created(last.calls)
       /\ (last.faults = {} => last.res = "nil")
       /\ (last.res = "nil"
             => /\ last.h.DriverName = last.pre.host.DriverName
                /\ Has(last.calls, "ConfigureAuth") <=> last.pre.host.DriverName # "none")

C3_Witness ==
  /\ StartedExisting
  /\ last.cfg.VMDriver = "virtualbox"
  /\ last.pre.host.DriverName = "none"
  /\ last.res = "nil"
  /\ last.warned

\* C4: a StopHost whose stop signal is answered "already in state Stopped"
\* returns nil; a StopHost right after a successful StopHost finds the machine
\* Stopped and returns nil unless a collaborator fails.
C4_StopIdempotent ==
  /\ (last.op = "StopHost" /\ Has(last.calls, "Stop")
        /\ last.out = "AlreadyInState:Stopped")
       => last.res = "nil"
  /\ (last.op = "StopHost" /\ prev = "stopped")
       => /\ last.pre.exists
          /\ last.pre.vm = "Stopped"
          /\ (last.faults = {} => last.res = "nil" /\ api.vm = "Stopped")

C4_Witness ==
  /\ last.op = "StopHost"
  /\ prev = "stopped"
  /\ Has(last.calls, "Stop")
  /\ last.out = "AlreadyInState:Stopped"
  /\ last.res = "nil"

\* C5: GetHostStatus, told by the store that the record does not exist,
\* returns the text of the None state and no error after the Exists call
\* alone; with a record and no failing collaborator it returns the text of
\* the state the driver has at that call.
C5_StatusWithoutExistence ==
  /\ (last.op = "GetHostStatus" /\ ~last.pre.exists /\ "Exists" \notin last.faults)
       => /\ last.res = "nil"
          /\ last.out = StateString("None")
          /\ last.calls = <<"Exists">>
  /\ (last.op = "GetHostStatus" /\ last.pre.exists /\ last.faults = {})
       => /\ last.res = "nil"
          /\ last.out = StateString(last.pre.vm)
  /\ last.op = "GetHostStatus" => api = last.pre

C5_Witness ==
  /\ last.op = "GetHostStatus"
  /\ ~last.pre.exists
  /\ last.res = "nil"
  /\ last.calls = <<"Exists">>

\* C6: a DeleteHost that loaded the record attempts the power-off, then calls
\* the driver's Remove, then the store's Remove, each once; when the driver's
\* Remove fails it returns an error, does not call the store's Remove and the
\* record stays; when the store's Remove fails it returns an error, the
\* driver's resource being gone and the record still there.
C6_DeleteOrdering ==
  last.op = "DeleteHost" =>
    /\ ~Has(last.calls, "Load") \/ "Load" \in last.faults \/ ~last.pre.exists
         => last.res = "err" /\ ~Has(last.calls, "Driver.Remove")
              /\ ~Has(last.calls, "api.Remove")
    /\ (last.pre.exists /\ "Load" \notin last.faults)
         => /\ Count(last.calls, "tryPowerOff") = 1
            /\ Count(last.calls, "Driver.Remove") = 1
            /\ Before(last.calls, "tryPowerOff", "Driver.Remove")
            /\ Has(last.calls, "RunSSHCommand:sudo poweroff")
                 => Before(last.calls, "RunSSHCommand:sudo poweroff", "Driver.Remove")
            /\ Count(last.calls, "api.Remove") <= 1
            /\ Has(last.calls, "api.Remove")
                 => Before(last.calls, "Driver.Remove", "api.Remove")
            /\ "Driver.Remove" \in last.faults
                 => /\ last.res = "err"
                    /\ ~Has(last.calls, "api.Remove")
                    /\ api.exists
                    /\ api.host = last.pre.host
            /\ "Driver.Remove" \notin last.faults
                 => Has(last.calls, "api.Remove")
            /\ "api.Remove" \in last.faults
                 => /\ last.res = "err"
                    /\ api.exists
                    /\ api.vm = "None"
            /\ last.faults \cap {"Driver.Remove", "api.Remove"} = {}
                 => last.res = "nil" /\ ~api.exists

C6_Witness ==
  /\ last.op = "DeleteHost"
  /\ "api.Remove" \in last.faults
  /\ Has(last.calls, "RunSSHCommand:sudo poweroff")
  /\ last.res = "err"
  /\ api.vm = "None"

\* the driver kinds GetVMHostIP knows
IPKinds == {"kvm", "kvm2", "hyperv", "virtualbox", "xhyve", "hyperkit"}

\* C7: GetVMHostIP on a record of a kind it does not know returns an error
\* and calls nothing; StartHost on a store without the record, for a kind
\* without a factory, ends with the unsupported-driver usage error after the
\* registry lookup alone; neither changes the store or the machine.
C7_UnsupportedDriver ==
  /\ (last.op = "GetVMHostIP" /\ last.pre.host.DriverName \notin IPKinds)
       => /\ last.res = "err"
          /\ last.calls = <<>>
          /\ api = last.pre
  /\ (last.op = "StartHost" /\ ~last.pre.exists /\ "Exists" \notin last.faults
        /\ last.cfg.VMDriver \notin Registered)
       => /\ last.res = "exit"
          /\ last.at = "unsupported driver"
          /\ last.calls = <<"Exists", "registry.Driver", "exit.Usage">>
          /\ api = last.pre

C7_Witness ==
  /\ last.op = "StartHost"
  /\ last.cfg.VMDriver = "bogus"
  /\ ~last.pre.exists
  /\ last.res = "exit"
  /\ ~api.exists

\* the gateway of the kinds whose address is fixed
FixedGateway(kind) ==
  CASE kind = "kvm" -> "192.168.42.1"
    [] kind = "kvm2" -> "192.168.39.1"
    [] kind \in {"xhyve", "hyperkit"} -> "192.168.64.1"

\* C8: GetVMHostIP on a record of kind kvm, kvm2, xhyve or hyperkit returns
\* the literal address of the kind and no error, in every state of the
\* machine, with every driver blob, after every sequence of operations.
C8_FixedGatewayDeterminism ==
  (last.op = "GetVMHostIP"
     /\ last.pre.host.DriverName \in {"kvm", "kvm2", "xhyve", "hyperkit"})
    => /\ last.res = "nil"
       /\ last.out = FixedGateway(last.pre.host.DriverName)
       /\ last.calls = <<>>

C8_Witness ==
  /\ last.op = "GetVMHostIP"
  /\ last.pre.host.DriverName = "kvm2"
  /\ last.pre.host.RawDriver # {}
  /\ last.pre.vm = "Stopped"
  /\ last.out = "192.168.39.1"

\* the mount the specification gives as its example
ExampleMount == MountArgs("10.0.0.2", "/mnt/x", "5000", "9p2000.L", 1000, 1000, 262144)

\* C9: GetMountCommand for the example mount returns no error and a script
\* with one mkdir of /mnt/x, then one "mount -t 9p" with the options
\* trans=tcp,port=5000,dfltuid=1000,dfltgid=1000,version=9p2000.L,msize=262144
\* followed by 10.0.0.2 and /mnt/x, then one "chmod 775" of /mnt/x; and
\* GetMountCleanupCommand for /mnt/x is "sudo umount /mnt/x;".
C9_MountCommandShape ==
  /\ (last.op = "GetMountCommand" /\ last.args = ExampleMount)
       => /\ last.res = "nil"
          /\ Once("mkdir", last.out)
          /\ Once("sudo mkdir -p /mnt/x ", last.out)
          /\ Once("mount -t 9p", last.out)
          /\ Once("sudo mount -t 9p -o trans=tcp,port=5000,dfltuid=1000,dfltgid=1000,version=9p2000.L,msize=262144 10.0.0.2 /mnt/x;", last.out)
          /\ Once("chmod 775", last.out)
          /\ Once("sudo chmod 775 /mnt/x ", last.out)
          /\ InOrder("mkdir", "mount -t 9p", "chmod 775", last.out)
  /\ (last.op = "GetMountCleanupCommand" /\ last.args.path = "/mnt/x")
       => last.out = "sudo umount /mnt/x;"

C9_Witness ==
  /\ last.op = "GetMountCommand"
  /\ last.args = ExampleMount
  /\ last.res = "nil"
  /\ Once("mkdir", last.out)

\* the calls StartHost makes to provision and to configure auth
ConfigureCalls == {"DetectProvisioner", "Provision", "ConfigureAuth"}

\* C10: a StartHost that loaded the record asks the driver for its state
\* once and calls Start exactly when the state is not Running; after a Start
\* that succeeds it saves the record before any provisioning or auth
\* configuration; with the state Running it calls neither Start nor Save;
\* when Start or Save fails it returns an error and neither provisions nor
\* configures auth.
C10_RestartThenSave ==
  StartedExisting =>
    /\ Count(last.calls, "GetState") = 1
    /\ "GetState" \notin last.faults
         => (Has(last.calls, "Start") <=> last.pre.vm # "Running")
    /\ (Has(last.calls, "Start") /\ "Start" \notin last.faults)
         => /\ Count(last.calls, "Save") = 1
            /\ Before(last.calls, "Start", "Save")
            /\ \A c \in ConfigureCalls :
                 Has(last.calls, c) => Before(last.calls, "Save", c)
    /\ last.pre.vm = "Running"
         => ~Has(last.calls, "Start") /\ ~Has(last.calls, "Save")
    /\ last.faults \cap {"Start", "Save"} # {}
         => /\ last.res = "err"
            /\ \A c \in ConfigureCalls : ~Has(last.calls, c)

C10_Witness ==
  /\ StartedExisting
  /\ last.pre.vm = "Stopped"
  /\ Before(last.calls, "Start", "Save")
  /\ Before(last.calls, "Save", "ConfigureAuth")
  /\ last.res = "nil"
  /\ api.vm = "Running"

\* C11 as it was stated: every StartHost that returns successfully for a
\* machine whose kind is not "none", whether it created the machine or loaded
\* its record, has called ConfigureAuth, and none for kind "none" has.
C11_AuthOnEverySuccess ==
  (last.op = "StartHost" /\ last.res = "nil")
    => (Has(last.calls, "ConfigureAuth") <=> last.h.DriverName # "none")

\* C11: a StartHost that loaded the record and returns successfully has
\* called ConfigureAuth, once and as its last call, exactly when the kind of
\* the record is not "none"; for kind "none" it never calls it; when
\* ConfigureAuth fails StartHost returns a retriable error wrapping the cause,
\* and no other failure of StartHost is retriable; a StartHost that found no
\* record returns what createHost returns and does not call ConfigureAuth.
C11_AuthOnReuse ==
  /\ (StartedExisting /\ last.res = "nil")
       => (Has(last.calls, "ConfigureAuth") <=> last.pre.host.DriverName # "none")
  /\ (last.op = "StartHost" /\ Has(last.calls, "ConfigureAuth"))
       => /\ last.pre.host.DriverName # "none"
          /\ Count(last.calls, "ConfigureAuth") = 1
          /\ last.calls[Len(last.calls)] = "ConfigureAuth"
  /\ (last.op = "StartHost" /\ "ConfigureAuth" \in last.faults)
       => /\ last.res = "retriable"
          /\ last.at = "Error configuring auth on host"
  /\ (last.op = "StartHost" /\ last.res = "retriable")
       => last.faults = {"ConfigureAuth"}
  /\ (last.op = "StartHost" /\ ~last.pre.exists)
       => ~Has(last.calls, "ConfigureAuth")

C11_Witness ==
  /\ StartedExisting
  /\ last.pre.host.DriverName = "kvm2"
  /\ "ConfigureAuth" \in last.faults
  /\ last.res = "retriable"

\* C12 as it was stated: every StartHost that returns successfully with a
\* config whose engine options carry a non-empty Env, whether it created the
\* machine or loaded its record, has called DetectProvisioner and then
\* Provision.
C12_ProvisionOnEveryStart ==
  (last.op = "StartHost" /\ last.res = "nil" /\ Len(engineOptions(last.cfg).Env) > 0)
    => Before(last.calls, "DetectProvisioner", "Provision")

\* C12: a StartHost that loaded the record and got past the state query and
\* the restart calls DetectProvisioner exactly when the Env of the engine
\* options of the config is not empty, and Provision after it unless the
\* detection failed, both before ConfigureAuth; with an empty Env it calls
\* neither; a failure of either makes StartHost return an error that is not
\* retriable, without ConfigureAuth; a StartHost that found no record calls
\* neither, whatever the Env.
C12_ProvisionOnReuse ==
  /\ (StartedExisting /\ last.faults \cap {"GetState", "Start", "Save"} = {})
       => /\ Has(last.calls, "DetectProvisioner") <=> Len(engineOptions(last.cfg).Env) > 0
          /\ Has(last.calls, "Provision")
               <=> /\ Len(engineOptions(last.cfg).Env) > 0
                   /\ "DetectProvisioner" \notin last.faults
          /\ Has(last.calls, "Provision")
               => Before(last.calls, "DetectProvisioner", "Provision")
          /\ Has(last.calls, "ConfigureAuth")
               => \A c \in {"DetectProvisioner", "Provision"} :
                    Has(last.calls, c) => Before(last.calls, c, "ConfigureAuth")
  /\ (last.op = "StartHost" /\ last.faults \cap {"DetectProvisioner", "Provision"} # {})
       => /\ last.res = "err"
          /\ ~Has(last.calls, "ConfigureAuth")
  /\ (last.op = "StartHost" /\ ~last.pre.exists)
       => /\ ~Has(last.calls, "DetectProvisioner")
          /\ ~Has(last.calls, "Provision")

C12_Witness ==
  /\ StartedExisting
  /\ Len(engineOptions(last.cfg).Env) > 0
  /\ last.res = "nil"
  /\ Before(last.calls, "DetectProvisioner", "Provision")
  /\ Before(last.calls, "Provision", "ConfigureAuth")

\* C13: after a StartHost that returns successfully, the record the store
\* holds is the handle StartHost returned, the Env of its engine options
\* included.
C13_StoredEqualsReturned ==
  (last.op = "StartHost" /\ last.res = "nil")
    => /\ api.exists
       /\ api.host = last.h

\* C14: a DeleteHost that loaded the record attempts the power-off before
\* Driver.Remove; the power-off command is sent exactly when the kind of the
\* record is not "none", the state query succeeds and the state is Running;
\* for kind "none" the state is not queried; whatever the attempt meets,
\* Driver.Remove is called, and DeleteHost succeeds unless a removal fails.
C14_PowerOffBestEffort ==
  /\ (last.op = "DeleteHost" /\ last.pre.exists /\ "Load" \notin last.faults)
       => Has(last.calls, "tryPowerOff")
  /\ (last.op = "DeleteHost" /\ Has(last.calls, "tryPowerOff"))
       => /\ Has(last.calls, "RunSSHCommand:sudo poweroff")
               <=> /\ last.pre.host.DriverName # "none"
                   /\ "GetState" \notin last.faults
                   /\ last.pre.vm = "Running"
          /\ Count(last.calls, "GetState")
               = (IF last.pre.host.DriverName = "none" THEN 0 ELSE 1)
          /\ Count(last.calls, "Driver.Remove") = 1
          /\ \A c \in {"tryPowerOff", "GetState", "RunSSHCommand:sudo poweroff"} :
               Has(last.calls, c) => Before(last.calls, c, "Driver.Remove")
          /\ last.faults \cap {"Driver.Remove", "api.Remove"} = {}
               => /\ last.res = "nil"
                  /\ ~api.exists

C14_Witness ==
  /\ last.op = "DeleteHost"
  /\ "RunSSHCommand:poweroff" \in last.faults
  /\ Before(last.calls, "RunSSHCommand:sudo poweroff", "Driver.Remove")
  /\ last.res = "nil"
  /\ ~api.exists

\* the commands the calls sent to the machine over SSH, in order
RemoteCommands(calls) ==
  SelectSeq(calls, LAMBDA c : StartsWith(c, "RunSSHCommand:"))

\* MountHost got the record of the machine from the store
MountLoaded ==
  /\ last.op = "MountHost"
  /\ last.pre.exists
  /\ last.faults \cap {"Exists", "Load"} = {}

\* C15: MountHost asks GetVMHostIP for the address exactly when it loaded the
\* record and no address was supplied; once the record is loaded and the
\* address is at hand it sends the unmount command for the path and then the
\* mount command, and nothing else; the result is an error when the mount
\* command fails and success when it succeeds, whatever the unmount command
\* met; without the record or without the address it sends no command.
C15_UnmountThenMount ==
  last.op = "MountHost" =>
    /\ Has(last.calls, "GetVMHostIP") <=> (MountLoaded /\ last.args.ip = NilIP)
    /\ (MountLoaded /\ last.args.ip # NilIP)
         => last.out = GetMountCommand(last.args.ip, last.args.path, last.args.port,
                                       last.args.version, last.args.uid, last.args.gid,
                                       last.args.msize)
    /\ (MountLoaded /\ last.at \notin {"Error getting the host IP address to use from within the VM",
                                       "index out of range"})
         => /\ RemoteCommands(last.calls)
                 = <<"RunSSHCommand:" \o GetMountCleanupCommand(last.args.path),
                     "RunSSHCommand:" \o last.out>>
            /\ SubSeq(last.calls, Len(last.calls) - 1, Len(last.calls))
                 = RemoteCommands(last.calls)
            /\ last.res = (IF "RunSSHCommand:mount" \in last.faults THEN "err" ELSE "nil")
    /\ (~MountLoaded \/ last.at \in {"Error getting the host IP address to use from within the VM",
                                      "index out of range"})
         => /\ RemoteCommands(last.calls) = <<>>
            /\ last.res # "nil"
    /\ api = last.pre

C15_Witness ==
  /\ MountLoaded
  /\ last.args.ip = NilIP
  /\ last.faults = {"RunSSHCommand:umount"}
  /\ Len(RemoteCommands(last.calls)) = 2
  /\ last.res = "nil"

\* C16: a StopHost whose stop signal fails with anything but "already in
\* state Stopped", an "already in state" of another state included, returns
\* a retriable error wrapping that failure and leaves the machine as it was;
\* nothing else makes StopHost return a retriable error; a StopHost that
\* cannot load the record returns an error that is not retriable and sends
\* no stop signal.
C16_StopFailureRetriable ==
  last.op = "StopHost" =>
    /\ (Has(last.calls, "Stop") /\ last.out \notin {"nil:None", "AlreadyInState:Stopped"})
         => /\ last.res = "retriable"
            /\ last.at = "Stop"
            /\ api = last.pre
    /\ last.res = "retriable"
         => /\ Has(last.calls, "Stop")
            /\ last.out \notin {"nil:None", "AlreadyInState:Stopped"}
    /\ (~last.pre.exists \/ "Load" \in last.faults)
         => /\ last.res = "err"
            /\ ~Has(last.calls, "Stop")

C16_Witness ==
  /\ last.op = "StopHost"
  /\ Has(last.calls, "Stop")
  /\ last.out = "AlreadyInState:Running"
  /\ last.res = "retriable"

\* C17: the record comes into the store only through a StartHost that found
\* none and called Create; StopHost and GetHostStatus leave the record as it
\* was, present or absent; the record leaves the store only through
\* DeleteHost; after a DeleteHost that succeeded the record is absent, a
\* GetHostStatus right after it returns the text of the None state, and a
\* StartHost right after it takes the create path.
C17_RecordLifecycle ==
  /\ (~last.pre.exists /\ api.exists)
       => /\ last.op = "StartHost"
          /\ Has(last.calls, "Create")
  /\ (last.pre.exists /\ ~api.exists) => last.op = "DeleteHost"
  /\ last.op \in {"StopHost", "GetHostStatus"}
       => /\ api.exists = last.pre.exists
          /\ api.host = last.pre.host
  /\ (last.op = "StartHost" /\ last.pre.exists) => ~Created(last.calls)
  /\ (last.op = "DeleteHost" /\ last.res = "nil") => ~api.exists
  /\ (last.op = "GetHostStatus" /\ prev = "deleted")
       => /\ ~last.pre.exists
          /\ "Exists" \notin last.faults
               => /\ last.res = "nil"
                  /\ last.out = StateString("None")
  /\ (last.op = "StartHost" /\ prev = "deleted")
       => /\ ~last.pre.exists
          /\ ~Has(last.calls, "Load")
          /\ "Exists" \notin last.faults => Has(last.calls, "registry.Driver")
          /\ last.res = "nil" => Count(last.calls, "Create") = 1 /\ api.exists

C17_Witness ==
  /\ last.op = "StartHost"
  /\ prev = "deleted"
  /\ Count(last.calls, "Create") = 1
  /\ last.res = "nil"
  /\ api.exists

\* the engine options the config asks for, written out field by field
WantedOptions(config) ==
  [Env |-> config.DockerEnv,
   InsecureRegistry |-> <<DefaultServiceCIDR>> \o config.InsecureRegistry,
   RegistryMirror |-> config.RegistryMirror,
   ArbitraryFlags |-> config.DockerOpt]

\* C18: the engine options StartHost computes from its config have the
\* default service CIDR as the first insecure registry, followed by the
\* registries of the config in their order, and the Env, the registry
\* mirrors and the flags of the config; a StartHost that creates the machine
\* returns a handle with these options, and a StartHost that loaded the
\* record returns a handle with this Env when it is not empty.
C18_EngineOptionsShape ==
  last.op = "StartHost" =>
    /\ engineOptions(last.cfg) = WantedOptions(last.cfg)
    /\ Head(engineOptions(last.cfg).InsecureRegistry) = DefaultServiceCIDR
    /\ Len(engineOptions(last.cfg).InsecureRegistry) = 1 + Len(last.cfg.InsecureRegistry)
    /\ (~last.pre.exists /\ last.res = "nil")
         => last.h.EngineOptions = WantedOptions(last.cfg)
    /\ (StartedExisting /\ last.res = "nil" /\ last.cfg.DockerEnv # <<>>)
         => last.h.EngineOptions.Env = last.cfg.DockerEnv

C18_Witness ==
  /\ last.op = "StartHost"
  /\ ~last.pre.exists
  /\ last.res = "nil"
  /\ Len(last.cfg.InsecureRegistry) = 2
  /\ last.h.EngineOptions.InsecureRegistry
       = <<DefaultServiceCIDR>> \o last.cfg.InsecureRegistry

\* C19: GetVMHostIP always returns, an address or an error: for a hyperv
\* machine whose driver data has no VSwitch field, for a virtualbox machine
\* whose VBoxManage output names no host-only adapter, and for an interface
\* that is missing or has no IPv4 address, it returns an error.
C19_GetVMHostIPTotal ==
  last.op = "GetVMHostIP" => last.res \in {"nil", "err"}

\* C20: a StopHost or a DeleteHost that cannot load the record returns the
\* load error, not retriable, after the Load call alone: no state query, no
\* stop signal, no power-off command, no removal; the store and the machine
\* are as they were.
C20_LoadFailureFrame ==
  (last.op \in {"StopHost", "DeleteHost"} /\ (~last.pre.exists \/ "Load" \in last.faults))
    => /\ last.res = "err"
       /\ last.at = "load"
       /\ last.calls = <<"Load">>
       /\ api = last.pre

C20_Witness ==
  /\ last.op = "StopHost"
  /\ last.pre.exists
  /\ last.pre.vm = "Running"
  /\ "Load" \in last.faults
  /\ last.res = "err"
  /\ api = last.pre

====
